---- MODULE Spec2Model ----
(***************************************************************************)
(* A model of nuance.Nuance (src/nuance/nuance.py): the session object,    *)
(* its Model Evaluator eval_m, linear_search, periodic_search and mask.    *)
(*                                                                         *)
(* Numbers.  A float is a record [k, n, d, e]:                             *)
(*   k = "fin"  the finite value (n / d) * 10^e, d > 0, n/d in lowest      *)
(*              terms (e is 0 except for the 1e25 variance sentinel and    *)
(*              what is computed from it);                                 *)
(*   k = "nan", "pinf", "ninf"  the IEEE specials.                         *)
(* Arithmetic is exact on finite values and follows IEEE on the specials.  *)
(*                                                                         *)
(* Times, durations and periods are integers (a common time unit).         *)
(***************************************************************************)
EXTENDS Integers, Sequences, FiniteSets, TLC

VARIABLES
    sessions,      \* the Nuance objects the caller holds, in creation order
    heap,          \* the live SearchData objects, by object id
    evaluated_on,  \* history: the session whose linear_search filled the grids
    inv_singular,  \* what inverting a singular Gram matrix yields in this build
    last_call      \* the last call made: its arguments and how it ended

vars == <<sessions, heap, evaluated_on, inv_singular, last_call>>

----------------------------------------------------------------------------
(* Floats *)

Abs(x) == IF x < 0 THEN -x ELSE x

RECURSIVE GCD(_, _)
GCD(a, b) == IF b = 0 THEN a ELSE GCD(b, a % b)

NaN  == [k |-> "nan",  n |-> 0, d |-> 1, e |-> 0]
PInf == [k |-> "pinf", n |-> 0, d |-> 1, e |-> 0]
NInf == [k |-> "ninf", n |-> 0, d |-> 1, e |-> 0]

\* the finite value (n / d) * 10^e in normal form
FinE(n, d, e) ==
    LET s == IF d < 0 THEN -1 ELSE 1
        g == GCD(Abs(n), Abs(d))
    IN  IF n = 0 THEN [k |-> "fin", n |-> 0, d |-> 1, e |-> 0]
        ELSE [k |-> "fin", n |-> (s * n) \div g, d |-> (s * d) \div g, e |-> e]

Fin(n, d) == FinE(n, d, 0)
Num(n) == FinE(n, 1, 0)
Zero == Num(0)

\* np.isfinite
IsFinite(a) == a.k = "fin"
IsNaN(a) == a.k = "nan"

Sign(a) ==
    CASE a.k = "pinf" -> 1
      [] a.k = "ninf" -> -1
      [] a.k = "nan"  -> 0
      [] OTHER -> IF a.n > 0 THEN 1 ELSE IF a.n < 0 THEN -1 ELSE 0

InfOfSign(s) == IF s > 0 THEN PInf ELSE NInf

Neg(a) ==
    CASE a.k = "pinf" -> NInf
      [] a.k = "ninf" -> PInf
      [] a.k = "nan"  -> NaN
      [] OTHER -> FinE(-a.n, a.d, a.e)

\* a + b; finite values of different magnitude 10^e absorb the smaller one
Add(a, b) ==
    IF IsNaN(a) \/ IsNaN(b) THEN NaN
    ELSE IF IsFinite(a) /\ IsFinite(b) THEN
        IF a.n = 0 THEN b
        ELSE IF b.n = 0 THEN a
        ELSE IF a.e = b.e THEN FinE(a.n * b.d + b.n * a.d, a.d * b.d, a.e)
        ELSE IF a.e > b.e THEN a ELSE b
    ELSE IF IsFinite(a) THEN b
    ELSE IF IsFinite(b) THEN a
    ELSE IF a = b THEN a ELSE NaN

Sub(a, b) == Add(a, Neg(b))

Mul(a, b) ==
    IF IsNaN(a) \/ IsNaN(b) THEN NaN
    ELSE IF IsFinite(a) /\ IsFinite(b) THEN FinE(a.n * b.n, a.d * b.d, a.e + b.e)
    ELSE IF Sign(a) = 0 \/ Sign(b) = 0 THEN NaN
    ELSE InfOfSign(Sign(a) * Sign(b))

Div(a, b) ==
    IF IsNaN(a) \/ IsNaN(b) THEN NaN
    ELSE IF IsFinite(b) THEN
        IF b.n = 0 THEN (IF Sign(a) = 0 THEN NaN ELSE InfOfSign(Sign(a)))
        ELSE IF IsFinite(a) THEN FinE(a.n * b.d, a.d * b.n, a.e - b.e)
        ELSE InfOfSign(Sign(a) * Sign(b))
    ELSE IF IsFinite(a) THEN Zero ELSE NaN

\* a < b (FALSE whenever a NaN is involved)
Less(a, b) ==
    IF IsNaN(a) \/ IsNaN(b) THEN FALSE
    ELSE IF a.k = "pinf" \/ b.k = "ninf" THEN FALSE
    ELSE IF a.k = "ninf" \/ b.k = "pinf" THEN TRUE
    ELSE IF a.e = b.e \/ a.n = 0 \/ b.n = 0 THEN a.n * b.d < b.n * a.d
    ELSE IF Sign(a) # Sign(b) THEN Sign(a) < Sign(b)
    ELSE IF Sign(a) > 0 THEN a.e < b.e ELSE a.e > b.e

\* F(x) with x computed once
Bind(x, F(_)) == CHOOSE v \in {F(y) : y \in {x}} : TRUE

\* a materialised array: every element computed once, in index order
array(f) == f \o <<>>

RECURSIVE SumSeq(_)
SumSeq(xs) == IF xs = <<>> THEN Zero ELSE Add(xs[1], SumSeq(Tail(xs)))

\* the dot product of two equally long vectors
Dot(xs, ys) == SumSeq(array([i \in 1..Len(xs) |-> Mul(xs[i], ys[i])]))

\* xs[mask] for a boolean mask, as numpy's boolean indexing: a new array
RECURSIVE Select(_, _)
Select(xs, keep) ==
    IF xs = <<>> THEN <<>>
    ELSE (IF keep[1] THEN <<xs[1]>> ELSE <<>>) \o Select(Tail(xs), Tail(keep))

----------------------------------------------------------------------------
(* utils: the phase function and the transit templates *)

\* Twice utils.phase(t, t0, P) = ((t - t0 + P/2) mod P) - P/2, for times given
\* doubled (t2 = 2 t, t02 = 2 t0), so that half-integer epochs stay integers.
Phase2(t2, t02, P) == ((t2 - t02 + P) % (2 * P)) - P

\* utils.single_transit(time, t0, D): a unit dip of total duration D centred
\* on t0, zero elsewhere (a positive fitted depth is a dimming)
single_transit(time, t0, D) ==
    array([i \in 1..Len(time) |->
        IF 2 * Abs(time[i] - t0) <= D THEN Num(-1) ELSE Zero])

\* utils.transit(time, t0, D, 1, P=P): the same dip repeated every P, the
\* times wrapped into phase first; t02 is the epoch doubled
transit(time, t02, D, P) ==
    array([i \in 1..Len(time) |->
        IF Abs(Phase2(2 * time[i], t02, P)) <= D THEN Num(-1) ELSE Zero])

----------------------------------------------------------------------------
(* The session object and the Model Evaluator *)

\* search_data = 0 is None, otherwise the id of a SearchData object of the heap
NoSearchData == 0

\* Nuance.__init__ with kernel=None (a zero kernel: the covariance is
\* diag(error**2)), mean=0 and a one-row design matrix; error is a scalar
\* (arr = FALSE, v = <<sigma>>) or an ndarray (arr = TRUE)
Nuance(time, flux, error, X) ==
    [time |-> time, flux |-> flux, error |-> error, X |-> X,
     search_data |-> NoSearchData]

\* len(self.X): the index of the transit slot in w and v
n_of(S) == Len(S.X)

ErrAt(S, i) == IF S.error.arr THEN S.error.v[i] ELSE S.error.v[1]

\* gp.solver.solve_triangular(y) for the diagonal covariance: y / error
solve_triangular(S, y) == array([i \in 1..Len(y) |-> Div(y[i], ErrAt(S, i))])

\* gp.log_probability(r), up to the additive normalisation
\* -(N/2) log(2 pi) - sum(log error) (error is 1 in every modelled session)
log_probability(S, r) ==
    Bind(solve_triangular(S, r), LAMBDA Lr : Mul(Fin(-1, 2), Dot(Lr, Lr)))

\* The Gram matrix LimX2 = LiXm.T @ LiXm and the right-hand side LiXm.T @ Liy
\* of eval_m, for the one-row design matrix: G = [[a, b], [b, c]], rhs = (p, q)
Gram(S, m) ==
    Bind(solve_triangular(S, S.flux), LAMBDA Liy :
    Bind(solve_triangular(S, S.X[1]), LAMBDA LiX :
    Bind(solve_triangular(S, m), LAMBDA Lim :
        [a |-> Dot(LiX, LiX), b |-> Dot(LiX, Lim), c |-> Dot(Lim, Lim),
         p |-> Dot(LiX, Liy), q |-> Dot(Lim, Liy)])))

Det(G) == Sub(Mul(G.a, G.c), Mul(G.b, G.b))

\* jnp.linalg.lstsq(LimX2, rhs)[0]: the solution of the normal equations, the
\* minimum-norm least-squares one when the Gram matrix is singular (for a
\* positive semi-definite rank-one G, pinv(G) = G / trace(G)^2)
lstsq(G) ==
    Bind(Det(G), LAMBDA det : Bind(Add(G.a, G.c), LAMBDA tr :
        IF Sign(det) # 0 THEN
            << Div(Sub(Mul(G.c, G.p), Mul(G.b, G.q)), det),
               Div(Sub(Mul(G.a, G.q), Mul(G.b, G.p)), det) >>
        ELSE IF Sign(tr) = 0 THEN << Mul(Zero, G.p), Mul(Zero, G.q) >>
        ELSE << Div(Add(Mul(G.a, G.p), Mul(G.b, G.q)), Mul(tr, tr)),
                Div(Add(Mul(G.b, G.p), Mul(G.c, G.q)), Mul(tr, tr)) >>))

\* jnp.linalg.inv(LimX2)[n, n]: a / det; for a singular Gram matrix the LU
\* solve divides by a zero pivot and yields a non-finite value, which one is
\* decided by the build (inv_singular)
inv_nn(G) ==
    IF Sign(Det(G)) # 0 THEN Div(G.a, Det(G)) ELSE inv_singular

\* eval_m(m) -> ll, w, v (of v only the entry [n, n] is ever read)
eval_m(S, m) ==
    Bind(Gram(S, m), LAMBDA G : Bind(lstsq(G), LAMBDA w :
        [ll  |-> log_probability(S, array([i \in 1..Len(S.flux) |->
                    Sub(S.flux[i], Add(Mul(w[1], S.X[1][i]), Mul(w[2], m[i])))])),
         w   |-> w,
         vnn |-> inv_nn(G)]))

zeros_like(time) == array([i \in 1..Len(time) |-> Zero])

\* the ll0 property: eval_m(zeros_like(time))[0]
ll0(S) == eval_m(S, zeros_like(S.time)).ll

----------------------------------------------------------------------------
(* SearchData, the result container *)

None == [some |-> FALSE]
Some(x) == [some |-> TRUE, v |-> x]

\* SearchData(t0s=, Ds=, ll=, z=, vz=, ll0=): the other fields start as None
SearchData(t0s, Ds, ll, z, vz, ll0v) ==
    [t0s |-> t0s, Ds |-> Ds, ll |-> ll, z |-> z, vz |-> vz, ll0 |-> ll0v,
     periods |-> None, Q_snr |-> None, Q_ll |-> None, Q_params |-> None,
     llv |-> None, llc |-> None]

\* Object ids name objects up to renaming.  A newly created object gets the
\* least id no session refers to (the value the previous call returned is
\* taken to be released by then).
SessionRefs == {sessions[s].search_data : s \in DOMAIN sessions}

FreshId ==
    CHOOSE id \in 1..(Len(sessions) + 1) :
        /\ id \notin SessionRefs
        /\ \A o \in 1..(id - 1) : o \in SessionRefs

\* the objects still referenced after a call: by a session, or as the value
\* the call returned
Live(ss, ret) ==
    ({ss[s].search_data : s \in DOMAIN ss} \cup {ret}) \ {NoSearchData}

----------------------------------------------------------------------------
(* linear_search *)

\* the variance sentinel 1e25
Sentinel == FinE(1, 1, 25)

\* eval_transit(t0, D) -> w[n], v[n, n], _ll
eval_transit(S, t0, D) ==
    Bind(eval_m(S, single_transit(S.time, t0, D)), LAMBDA r :
        [depth |-> r.w[n_of(S) + 1], var |-> r.vnn, ll |-> r.ll])

\* the batch results delivered in the reverse of the durations' order
vmap_eval_transit_Reversed(S, t0, Ds) ==
    array([j \in 1..Len(Ds) |-> eval_transit(S, t0, Ds[Len(Ds) + 1 - j])])

\* f = jax.vmap(eval_transit, in_axes=(None, 0)); f(t0, Ds): one result per
\* duration, at the duration's index
vmap_eval_transit(S, t0, Ds) ==
    array([j \in 1..Len(Ds) |-> eval_transit(S, t0, Ds[j])])

\* for i, t0 in enumerate(t0s): depths[i, :], vars[i, :], ll[i, :] = f(t0, Ds)
GridRows(S, t0s, Ds) ==
    array([i \in 1..Len(t0s) |-> vmap_eval_transit(S, t0s[i], Ds)])

GridOf(rows, field) ==
    array([i \in 1..Len(rows) |-> array([j \in 1..Len(rows[i]) |->
        CASE field = "depth" -> rows[i][j].depth
          [] field = "var"   -> rows[i][j].var
          [] OTHER           -> rows[i][j].ll])])

\* the sign test reversed: ll[depths > 0] = ll0
SignPolicy_Reversed(ll, depths, ll0v, positive) ==
    array([i \in 1..Len(ll) |-> array([j \in 1..Len(ll[i]) |->
        IF positive /\ Less(Zero, depths[i][j]) THEN ll0v ELSE ll[i][j]])])

\* if positive: ll[depths < 0] = ll0
SignPolicy(ll, depths, ll0v, positive) ==
    Bind(ll0v, LAMBDA null :
    array([i \in 1..Len(ll) |-> array([j \in 1..Len(ll[i]) |->
        IF positive /\ Less(depths[i][j], Zero) THEN null ELSE ll[i][j]])]))

\* np.isnan in place of ~np.isfinite: the infinities pass
SanitizeVars_NaNOnly(vs) ==
    array([i \in 1..Len(vs) |-> array([j \in 1..Len(vs[i]) |->
        IF IsNaN(vs[i][j]) THEN Sentinel ELSE vs[i][j]])])

\* vars[~np.isfinite(vars)] = 1e25
SanitizeVars(vs) ==
    array([i \in 1..Len(vs) |-> array([j \in 1..Len(vs[i]) |->
        IF ~IsFinite(vs[i][j]) THEN Sentinel ELSE vs[i][j]])])

\* ll0 never handed to the container: it keeps a zero
LinearSearchData_NoLL0(S, t0s, Ds, positive) ==
    Bind(GridRows(S, t0s, Ds), LAMBDA rows :
    Bind(GridOf(rows, "depth"), LAMBDA depths :
        SearchData(t0s, Ds,
                   SignPolicy(GridOf(rows, "ll"), depths,
                              eval_m(S, zeros_like(S.time)).ll, positive),
                   depths,
                   SanitizeVars(GridOf(rows, "var")),
                   Zero)))

\* the SearchData linear_search stores
LinearSearchData(S, t0s, Ds, positive) ==
    Bind(GridRows(S, t0s, Ds), LAMBDA rows :
    Bind(GridOf(rows, "depth"), LAMBDA depths :
        SearchData(t0s, Ds,
                   SignPolicy(GridOf(rows, "ll"), depths,
                              eval_m(S, zeros_like(S.time)).ll, positive),
                   depths,
                   SanitizeVars(GridOf(rows, "var")),
                   ll0(S))))

NoArgs ==
    [t0s |-> <<>>, Ds |-> <<>>, positive |-> FALSE, periods |-> <<>>,
     t0 |-> 0, D |-> 0, P |-> 0]

Call(op, s, outcome, ret, new, args) ==
    [op |-> op, self |-> s, outcome |-> outcome, ret |-> ret, new |-> new,
     args |-> args]

\* self.search_data = SearchData(...): the object this replaces is released
\* by the assignment, and the new one is named by its id
linear_search(s, t0s, Ds, positive) ==
    LET id == IF sessions[s].search_data = NoSearchData
              THEN FreshId ELSE sessions[s].search_data
        ss == [sessions EXCEPT ![s].search_data = id]
        keep == Live(ss, NoSearchData)
    IN  /\ sessions' = ss
        /\ heap' = [o \in keep |->
                      IF o = id THEN LinearSearchData(sessions[s], t0s, Ds, positive)
                      ELSE heap[o]]
        /\ evaluated_on' = [o \in keep |-> IF o = id THEN s ELSE evaluated_on[o]]
        /\ last_call' = Call("linear_search", s, "returned", NoSearchData, 0,
                             [NoArgs EXCEPT !.t0s = t0s, !.Ds = Ds,
                                            !.positive = positive])
        /\ UNCHANGED inv_singular

----------------------------------------------------------------------------
(* SearchData.copy and SearchData.fold_ll *)

\* copy(): a deep, independent copy (the same field values in a new object)
copy(sd) == sd

RECURSIVE SortedSeq(_)
SortedSeq(xs) ==
    IF xs = {} THEN <<>>
    ELSE LET lo == CHOOSE x \in xs : \A y \in xs : x <= y
         IN  <<lo>> \o SortedSeq(xs \ {lo})

\* twice the centred phase of each searched epoch, folded on period P
FoldPhase2(sd, P) == array([e \in 1..Len(sd.t0s) |-> Phase2(2 * sd.t0s[e], 0, P)])

\* the sum over the epochs es of ll[e][j], or of ll[e][j] - ll0
RECURSIVE SumOver(_, _, _, _)
SumOver(sd, es, j, rel) ==
    IF es = {} THEN Zero
    ELSE LET e == CHOOSE x \in es : \A y \in es : x <= y
         IN  Add(IF rel THEN Sub(sd.ll[e][j], sd.ll0) ELSE sd.ll[e][j],
                 SumOver(sd, es \ {e}, j, rel))

\* fold_ll(P) -> phase, P1, P2: the phase grid (in units of P, ascending), the
\* log-likelihood summed over the epochs folded onto each phase, and the same
\* sum taken relative to the null model
fold_ll(sd, P) ==
    Bind(FoldPhase2(sd, P), LAMBDA ph :
    Bind(SortedSeq({ph[e] : e \in 1..Len(ph)}), LAMBDA grid :
    LET members(i) == {e \in 1..Len(ph) : ph[e] = grid[i]}
    IN  [phase |-> array([i \in 1..Len(grid) |-> Fin(grid[i], 2 * P)]),
         P1 |-> array([i \in 1..Len(grid) |-> array([j \in 1..Len(sd.Ds) |->
                    SumOver(sd, members(i), j, FALSE)])]),
         P2 |-> array([i \in 1..Len(grid) |-> array([j \in 1..Len(sd.Ds) |->
                    SumOver(sd, members(i), j, TRUE)])])]))

----------------------------------------------------------------------------
(* periodic_search *)

RECURSIVE Flatten(_)
Flatten(rows) == IF rows = <<>> THEN <<>> ELSE rows[1] \o Flatten(Tail(rows))

\* np.argmax of a non-empty flat array (1-based): the first maximum, or the
\* first NaN when there is one
RECURSIVE ArgMaxFrom(_, _, _)
ArgMaxFrom(xs, i, best) ==
    IF i > Len(xs) THEN best
    ELSE IF ~IsNaN(xs[best]) /\ (IsNaN(xs[i]) \/ Less(xs[best], xs[i]))
         THEN ArgMaxFrom(xs, i + 1, i)
         ELSE ArgMaxFrom(xs, i + 1, best)

argmax(xs) == ArgMaxFrom(xs, 2, 1)

\* P2.mean()
mean(xs) == Div(SumSeq(xs), Num(Len(xs)))

\* twice a finite value that is a multiple of one half
Twice(a) == (2 * a.n) \div a.d

\* solve(t0, D, P) -> w, v, for the periodic template
solve(S, t0, D, P) == eval_m(S, transit(S.time, Twice(t0), D, P))

\* snr(t0, D, P) = w[-1] / sqrt(v[-1, -1]), kept as its signed square
\* sign(w) * w^2 / v (the square root of a negative variance is NaN)
snr(S, t0, D, P) ==
    Bind(solve(S, t0, D, P), LAMBDA r :
        LET w == r.w[n_of(S) + 1]
            v == r.vnn
        IN  IF IsNaN(v) \/ Sign(v) < 0 THEN NaN
            ELSE Mul(Num(Sign(w)), Div(Mul(w, w), v)))

\* the body of the loop over the periods, for one period P
Detect(S, sd, P) ==
    Bind(fold_ll(sd, P), LAMBDA f :
    Bind(Flatten(f.P2), LAMBDA flat :
    Bind(argmax(flat), LAMBDA k :
        LET i  == ((k - 1) \div Len(sd.Ds)) + 1
            j  == ((k - 1) % Len(sd.Ds)) + 1
            Dj == sd.Ds[j]
        IN  Bind(Mul(f.phase[i], Num(P)), LAMBDA Ti :
                [snr |-> snr(S, Ti, Dj, P), params |-> <<Ti, Num(Dj), Num(P)>>,
                 max_ll |-> Sub(f.P2[i][j], mean(flat))]))))

\* np.argmax raises ValueError on an empty P2
FoldIsEmpty(sd, P) == Flatten(fold_ll(sd, P).P2) = <<>>

\* the loop run over the periods sorted ascending instead of as given
RECURSIVE PeriodicLoop_Sorted(_, _, _, _, _)
PeriodicLoop_Sorted(S, sd, periods, p, acc) ==
    IF p > Len(periods) THEN acc
    ELSE Bind(Detect(S, sd, SortedSeq({periods[q] : q \in 1..Len(periods)})[p]),
              LAMBDA d :
             PeriodicLoop_Sorted(S, sd, periods, p + 1,
                 [snr    |-> [acc.snr EXCEPT ![p] = d.snr],
                  max_ll |-> [acc.max_ll EXCEPT ![p] = d.max_ll],
                  params |-> [acc.params EXCEPT ![p] = d.params]]))

\* for p, P in enumerate(periods): snr[p], params[p] = ...; max_ll[p] = ...
\* (the arrays start as zeros and entry p is written at step p)
RECURSIVE PeriodicLoop(_, _, _, _, _)
PeriodicLoop(S, sd, periods, p, acc) ==
    IF p > Len(periods) THEN acc
    ELSE Bind(Detect(S, sd, periods[p]), LAMBDA d :
             PeriodicLoop(S, sd, periods, p + 1,
                 [snr    |-> [acc.snr EXCEPT ![p] = d.snr],
                  max_ll |-> [acc.max_ll EXCEPT ![p] = d.max_ll],
                  params |-> [acc.params EXCEPT ![p] = d.params]]))

\* the SearchData periodic_search returns
PeriodicSearchData(S, sd, periods) ==
    Bind(copy(sd), LAMBDA new_search_data :
    Bind(PeriodicLoop(S, new_search_data, periods, 1,
             [snr    |-> array([p \in 1..Len(periods) |-> Zero]),
              max_ll |-> array([p \in 1..Len(periods) |-> Zero]),
              params |-> array([p \in 1..Len(periods) |-> <<Zero, Zero, Zero>>])]),
         LAMBDA acc :
        [new_search_data EXCEPT !.periods = Some(periods),
                                !.Q_snr = Some(acc.snr),
                                !.Q_ll = Some(acc.max_ll),
                                !.Q_params = Some(acc.params)]))

\* a call that raises leaves every object as it was
Raise(op, s, exc, args) ==
    LET keep == Live(sessions, NoSearchData)
    IN  /\ last_call' = Call(op, s, exc, NoSearchData, 0, args)
        /\ heap' = [o \in keep |-> heap[o]]
        /\ evaluated_on' = [o \in keep |-> evaluated_on[o]]
        /\ UNCHANGED <<sessions, inv_singular>>

\* new_search_data = self.search_data, without the copy: the results are
\* written on the session's own object, which is also what is returned
periodic_search_NoCopy(s, periods) ==
    LET S    == sessions[s]
        args == [NoArgs EXCEPT !.periods = periods]
    IN  IF S.search_data = NoSearchData
        THEN Raise("periodic_search", s, "AttributeError", args)
        ELSE IF \E p \in 1..Len(periods) : FoldIsEmpty(heap[S.search_data], periods[p])
        THEN Raise("periodic_search", s, "ValueError", args)
        ELSE LET id   == S.search_data
                 keep == Live(sessions, id)
             IN  /\ heap' = [o \in keep |->
                        IF o = id THEN PeriodicSearchData(S, heap[S.search_data], periods)
                        ELSE heap[o]]
                 /\ evaluated_on' = [o \in keep |-> evaluated_on[o]]
                 /\ last_call' = Call("periodic_search", s, "returned", id, 0, args)
                 /\ UNCHANGED <<sessions, inv_singular>>

periodic_search(s, periods) ==
    LET S    == sessions[s]
        args == [NoArgs EXCEPT !.periods = periods]
    IN  IF S.search_data = NoSearchData
        THEN Raise("periodic_search", s, "AttributeError", args)
        ELSE IF \E p \in 1..Len(periods) : FoldIsEmpty(heap[S.search_data], periods[p])
        THEN Raise("periodic_search", s, "ValueError", args)
        ELSE LET id   == FreshId
                 keep == Live(sessions, id)
             IN  /\ heap' = [o \in keep |->
                        IF o = id THEN PeriodicSearchData(S, heap[S.search_data], periods)
                        ELSE heap[o]]
                 /\ evaluated_on' = [o \in keep |->
                        IF o = id THEN evaluated_on[S.search_data]
                        ELSE evaluated_on[o]]
                 /\ last_call' = Call("periodic_search", s, "returned", id, 0, args)
                 /\ UNCHANGED <<sessions, inv_singular>>

----------------------------------------------------------------------------
(* mask *)

\* mask = np.abs(utils.phase(ts, t0, P)) > 2 * D
PhaseMask(ts, t0, D, P) ==
    array([i \in 1..Len(ts) |-> Abs(Phase2(2 * ts[i], 2 * t0, P)) > 4 * D])

\* the rows of vz left unmasked
MaskSearchData_VzKept(sd, t0, D, P) ==
    Bind(copy(sd), LAMBDA search_data :
    Bind(PhaseMask(search_data.t0s, t0, D, P), LAMBDA m :
        [search_data EXCEPT !.llv = None, !.llc = None, !.periods = None,
                            !.t0s = Select(search_data.t0s, m),
                            !.ll = Select(search_data.ll, m),
                            !.z = Select(search_data.z, m)]))

\* lines 367-377: the copied search data with the masked epochs removed
MaskSearchData(sd, t0, D, P) ==
    Bind(copy(sd), LAMBDA search_data :
    Bind(PhaseMask(search_data.t0s, t0, D, P), LAMBDA m :
        [search_data EXCEPT !.llv = None, !.llc = None, !.periods = None,
                            !.t0s = Select(search_data.t0s, m),
                            !.ll = Select(search_data.ll, m),
                            !.z = Select(search_data.z, m),
                            !.vz = Select(search_data.vz, m)]))

\* lines 380-393: the new session on the masked time series
MaskNuance(S, t0, D, P) ==
    Bind(PhaseMask(S.time, t0, D, P), LAMBDA m :
        LET error == IF S.error.arr
                     THEN [arr |-> TRUE, v |-> Select(S.error.v, m)]
                     ELSE S.error
        IN  Nuance(Select(S.time, m), Select(S.flux, m), error,
                   array([r \in 1..Len(S.X) |-> Select(S.X[r], m)])))

\* search_data = self.search_data, without the copy: the session's own
\* object is masked and shared with the new session
mask_NoCopy(s, t0, D, P) ==
    LET S    == sessions[s]
        args == [NoArgs EXCEPT !.t0 = t0, !.D = D, !.P = P]
    IN  IF S.search_data = NoSearchData
        THEN Raise("mask", s, "AttributeError", args)
        ELSE LET id == S.search_data
                 nu == [MaskNuance(S, t0, D, P) EXCEPT !.search_data = id]
                 ss == Append(sessions, nu)
                 keep == Live(ss, NoSearchData)
             IN  /\ sessions' = ss
                 /\ heap' = [o \in keep |->
                        IF o = id THEN MaskSearchData(heap[S.search_data], t0, D, P)
                        ELSE heap[o]]
                 /\ evaluated_on' = [o \in keep |-> evaluated_on[o]]
                 /\ last_call' = Call("mask", s, "returned", NoSearchData, Len(ss), args)
                 /\ UNCHANGED inv_singular

mask(s, t0, D, P) ==
    LET S    == sessions[s]
        args == [NoArgs EXCEPT !.t0 = t0, !.D = D, !.P = P]
    IN  IF S.search_data = NoSearchData
        THEN Raise("mask", s, "AttributeError", args)
        ELSE LET id == FreshId
                 nu == [MaskNuance(S, t0, D, P) EXCEPT !.search_data = id]
                 ss == Append(sessions, nu)
                 keep == Live(ss, NoSearchData)
             IN  /\ sessions' = ss
                 /\ heap' = [o \in keep |->
                        IF o = id THEN MaskSearchData(heap[S.search_data], t0, D, P)
                        ELSE heap[o]]
                 /\ evaluated_on' = [o \in keep |->
                        IF o = id THEN evaluated_on[S.search_data]
                        ELSE evaluated_on[o]]
                 /\ last_call' = Call("mask", s, "returned", NoSearchData, Len(ss), args)
                 /\ UNCHANGED inv_singular

----------------------------------------------------------------------------
(* The sessions and the calls explored *)

MaxSessions == 3

\* the observation times of the first session
Times == <<0, 3, 6, 9>>

Ones == array([i \in 1..Len(Times) |-> Num(1)])

\* its flux and error: a brightening at t = 3 and a dip at t = 9 with a scalar
\* error; the same with a NaN sample at t = 6 and an error array
Series ==
    { [flux  |-> <<Num(5), Num(7), Num(5), Num(4)>>,
       error |-> [arr |-> FALSE, v |-> <<Num(1)>>]],
      [flux  |-> <<Num(5), Num(7), NaN, Num(4)>>,
       error |-> [arr |-> TRUE, v |-> Ones]] }

\* the searches made, as (t0s, Ds, positive): an empty epoch grid, and epochs
\* off and on the samples with a duration that covers one sample and one that
\* covers them all
LinearArgs ==
    { << <<>>, <<1, 30>>, TRUE >>,
      << <<1, 3, 9>>, <<1, 30>>, TRUE >>,
      << <<1, 3, 9>>, <<1, 30>>, FALSE >> }
PeriodGrids == { <<>>, <<9, 6>> }
\* the detections masked, as (t0, D, P)
MaskArgs == { <<3, 1, 12>>, <<3, 1, 6>> }

Init ==
    /\ \E d \in Series :
           sessions = << Nuance(Times, d.flux, d.error, <<Ones>>) >>
    /\ heap = [o \in {} |-> None]
    /\ evaluated_on = [o \in {} |-> 0]
    /\ inv_singular \in {NaN, PInf, NInf}
    /\ last_call = Call("init", 0, "returned", NoSearchData, 0, NoArgs)

\* the session the caller works on: the iterative search of one signal after
\* another calls the newest session, the earlier ones stay held
Current == Len(sessions)

Next ==
    \/ \E a \in LinearArgs : linear_search(Current, a[1], a[2], a[3])
    \/ \E periods \in PeriodGrids : periodic_search(Current, periods)
    \/ \E a \in MaskArgs :
           /\ Len(sessions) < MaxSessions
           /\ mask(Current, a[1], a[2], a[3])

Spec == Init /\ [][Next]_vars

----------------------------------------------------------------------------
(* Properties *)

Returned(op) == last_call.op = op /\ last_call.outcome = "returned"

\* the session and the surface a returned linear_search left behind
SelfSession == sessions[last_call.self]
SelfData == heap[SelfSession.search_data]

Cells(sd) == {<<i, j>> \in (1..Len(sd.t0s)) \X (1..Len(sd.Ds)) : TRUE}

\* what the Model Evaluator returns for cell c of surface sd on session S
CellEval(S, sd, c) == eval_transit(S, sd.t0s[c[1]], sd.Ds[c[2]])

\* the log-likelihood the Model Evaluator returns for the all-zero regressor
NullLL(S) == eval_m(S, [i \in 1..Len(S.time) |-> Zero]).ll

\* C1 (as stated): after linear_search(t0s, Ds, positive=True), every cell of
\* negative fitted depth has ll = ll0 while z and vz are the values the Model
\* Evaluator returned for the cell; cells of non-negative depth keep the
\* evaluator's log-likelihood.
C1_AsStated ==
    (Returned("linear_search") /\ last_call.args.positive) =>
        \A c \in Cells(SelfData) :
            LET r == CellEval(SelfSession, SelfData, c)
                z == SelfData.z[c[1]][c[2]]
            IN  /\ Less(z, Zero) =>
                    /\ SelfData.ll[c[1]][c[2]] = NullLL(SelfSession)
                    /\ z = r.depth
                    /\ SelfData.vz[c[1]][c[2]] = r.var
                /\ (~Less(z, Zero) /\ ~IsNaN(z)) =>
                    SelfData.ll[c[1]][c[2]] = r.ll

\* C1 (amended): after linear_search(t0s, Ds, positive=True), every cell of
\* negative fitted depth has ll = ll0 while z is the depth the Model Evaluator
\* returned and vz is the variance it returned, or the sentinel 1e25 when that
\* variance is not finite; cells of non-negative depth keep the evaluator's
\* log-likelihood.
C1_SignPolicy ==
    (Returned("linear_search") /\ last_call.args.positive) =>
        \A c \in Cells(SelfData) :
            LET r == CellEval(SelfSession, SelfData, c)
                z == SelfData.z[c[1]][c[2]]
            IN  /\ Less(z, Zero) =>
                    /\ SelfData.ll[c[1]][c[2]] = NullLL(SelfSession)
                    /\ z = r.depth
                    /\ SelfData.vz[c[1]][c[2]] =
                           (IF r.var.k = "fin" THEN r.var ELSE FinE(1, 1, 25))
                /\ (~Less(z, Zero) /\ ~IsNaN(z)) =>
                    SelfData.ll[c[1]][c[2]] = r.ll

\* a positive search left a cell of negative depth whose evaluator variance
\* is finite, one whose evaluator variance is not, and a cell of positive
\* depth whose log-likelihood differs from ll0
C1_Witness ==
    /\ Returned("linear_search") /\ last_call.args.positive
    /\ \E c \in Cells(SelfData) :
           /\ Less(SelfData.z[c[1]][c[2]], Zero)
           /\ CellEval(SelfSession, SelfData, c).var.k = "fin"
           /\ CellEval(SelfSession, SelfData, c).ll # NullLL(SelfSession)
    /\ \E c \in Cells(SelfData) :
           /\ Less(SelfData.z[c[1]][c[2]], Zero)
           /\ CellEval(SelfSession, SelfData, c).var.k # "fin"
    /\ \E c \in Cells(SelfData) :
           /\ Less(Zero, SelfData.z[c[1]][c[2]])
           /\ SelfData.ll[c[1]][c[2]] # NullLL(SelfSession)

C3_AlignedWithPeriods ==
    Returned("periodic_search") =>
        LET r  == heap[last_call.ret]
            ps == last_call.args.periods
        IN  /\ r.periods = Some(ps)
            /\ r.Q_snr.some /\ r.Q_ll.some /\ r.Q_params.some
            /\ Len(r.Q_snr.v) = Len(ps)
            /\ Len(r.Q_ll.v) = Len(ps)
            /\ Len(r.Q_params.v) = Len(ps)
            /\ \A p \in 1..Len(ps) :
                   LET d == Detect(SelfSession, SelfData, ps[p])
                   IN  /\ r.Q_params.v[p][3] = Num(ps[p])
                       /\ r.Q_params.v[p] = d.params
                       /\ r.Q_snr.v[p] = d.snr
                       /\ r.Q_ll.v[p] = d.max_ll

\* a search over two periods given in descending order returned two
\* different detections
C3_Witness ==
    /\ Returned("periodic_search")
    /\ Len(last_call.args.periods) = 2
    /\ last_call.args.periods[1] > last_call.args.periods[2]
    /\ heap[last_call.ret].Q_ll.v[1] # heap[last_call.ret].Q_ll.v[2]
    /\ heap[last_call.ret].Q_params.v[1][1] # heap[last_call.ret].Q_params.v[2][1]

\* the SearchData objects the sessions refer to
SessionData == SessionRefs \ {NoSearchData}

\* C4: mask(t0, D, P) never mutates the session it is called on: after the
\* call every session that existed, with its time, flux, error, X and its
\* search data, is as before, and the returned session and its SearchSurface
\* are new objects distinct from the existing ones.
C4_MaskDoesNotMutate ==
    [][ last_call'.op = "mask" =>
          /\ \A s \in DOMAIN sessions : sessions'[s] = sessions[s]
          /\ \A o \in SessionData : o \in DOMAIN heap' /\ heap'[o] = heap[o]
          /\ last_call'.outcome = "returned" =>
                /\ Len(sessions') = Len(sessions) + 1
                /\ last_call'.new \notin DOMAIN sessions
                /\ last_call'.new \in DOMAIN sessions'
                /\ sessions'[last_call'.new].search_data \in DOMAIN heap'
                /\ sessions'[last_call'.new].search_data \notin SessionRefs
      ]_vars

\* a mask returned a session with fewer points and a surface with fewer
\* epochs than those of the session it was called on
C4_Witness ==
    /\ Returned("mask")
    /\ Len(sessions[last_call.new].time) < Len(SelfSession.time)
    /\ Len(heap[sessions[last_call.new].search_data].t0s) < Len(SelfData.t0s)

\* C5: periodic_search reads the session's SearchSurface only: after any call
\* the sessions and their search data are as before, and the periodic results
\* are on the returned copy, an object no session refers to.
C5_PeriodicSearchReadOnly ==
    [][ last_call'.op = "periodic_search" =>
          /\ sessions' = sessions
          /\ \A o \in SessionData : o \in DOMAIN heap' /\ heap'[o] = heap[o]
          /\ last_call'.outcome = "returned" =>
                /\ last_call'.ret \in DOMAIN heap'
                /\ last_call'.ret \notin SessionRefs
                /\ heap'[last_call'.ret].periods = Some(last_call'.args.periods)
                /\ heap'[last_call'.ret].Q_snr.some
      ]_vars

\* a search over some periods returned its results while the session's own
\* surface carries none
C5_Witness ==
    /\ Returned("periodic_search")
    /\ last_call.args.periods # <<>>
    /\ heap[last_call.ret].Q_snr.some
    /\ ~SelfData.Q_snr.some /\ ~SelfData.periods.some
    /\ SelfData.t0s = heap[last_call.ret].t0s

\* C6 (as stated): a linear_search given an empty epoch or duration sequence,
\* or a periodic_search given an empty period sequence, ends in an error, and
\* no empty surface is stored in the session.
C6_AsStated ==
    /\ (last_call.op = "linear_search"
          /\ (last_call.args.t0s = <<>> \/ last_call.args.Ds = <<>>)) =>
           /\ last_call.outcome # "returned"
           /\ ~(SelfSession.search_data # NoSearchData /\ SelfData.ll = <<>>)
    /\ (last_call.op = "periodic_search" /\ last_call.args.periods = <<>>) =>
           last_call.outcome # "returned"

\* C7 (as stated): no non-finite log-likelihood is ever stored in a
\* SearchSurface.
C7_AsStated ==
    \A o \in DOMAIN heap : \A i \in 1..Len(heap[o].ll) :
        \A j \in 1..Len(heap[o].ll[i]) : heap[o].ll[i][j].k = "fin"

\* twice the distance from t to the nearest transit time t0 + k P
TransitDist2(t, t0, P) ==
    LET K == (Abs(t - t0) \div P) + 1
        ds == {Abs(2 * (t - t0 - k * P)) : k \in (0 - K)..K}
    IN  CHOOSE d \in ds : \A e \in ds : d <= e

\* the entries of xs at the positions where ts lies further than 2 D from
\* every transit of (t0, D, P)
RECURSIVE Outside(_, _, _, _, _)
Outside(xs, ts, t0, D, P) ==
    IF ts = <<>> THEN <<>>
    ELSE (IF TransitDist2(ts[1], t0, P) > 4 * D THEN <<xs[1]>> ELSE <<>>)
         \o Outside(Tail(xs), Tail(ts), t0, D, P)

\* C8: mask(t0, D, P) returns a session that keeps exactly the time points,
\* and a surface that keeps exactly the grid epochs with their rows of ll, z
\* and vz, whose phase distance to the transit is greater than 2 D; masking
\* the result again with the same (t0, D, P) removes nothing and leaves the
\* data and the surface unchanged.
C8_MaskKeepsOutside ==
    Returned("mask") =>
        LET S  == SelfSession
            N  == sessions[last_call.new]
            sd == SelfData
            nd == heap[N.search_data]
            t0 == last_call.args.t0
            D  == last_call.args.D
            P  == last_call.args.P
            again == MaskNuance(N, t0, D, P)
        IN  /\ N.time = Outside(S.time, S.time, t0, D, P)
            /\ N.flux = Outside(S.flux, S.time, t0, D, P)
            /\ N.X = <<Outside(S.X[1], S.time, t0, D, P)>>
            /\ N.error = (IF S.error.arr
                          THEN [arr |-> TRUE,
                                v |-> Outside(S.error.v, S.time, t0, D, P)]
                          ELSE S.error)
            /\ nd.t0s = Outside(sd.t0s, sd.t0s, t0, D, P)
            /\ nd.ll = Outside(sd.ll, sd.t0s, t0, D, P)
            /\ nd.z = Outside(sd.z, sd.t0s, t0, D, P)
            /\ nd.vz = Outside(sd.vz, sd.t0s, t0, D, P)
            /\ nd.Ds = sd.Ds
            /\ again.time = N.time /\ again.flux = N.flux
            /\ again.X = N.X /\ again.error = N.error
            /\ MaskSearchData(nd, t0, D, P) = nd

\* the second session was masked again: the first mask had removed points
\* and epochs and kept others, the second one removed nothing
C8_Witness ==
    /\ Returned("mask") /\ last_call.self = 2 /\ last_call.new = 3
    /\ Len(sessions[2].time) < Len(sessions[1].time)
    /\ Len(heap[sessions[2].search_data].t0s) < Len(heap[sessions[1].search_data].t0s)
    /\ heap[sessions[2].search_data].t0s # <<>>
    /\ sessions[3].time = sessions[2].time
    /\ sessions[3].flux = sessions[2].flux
    /\ heap[sessions[3].search_data] = heap[sessions[2].search_data]

\* C9: the surface linear_search(t0s, Ds) stores has three grids of shape
\* |t0s| x |Ds|, and cell (i, j) of ll, z and vz holds the result of the
\* evaluation for exactly (t0s[i], Ds[j]) (z as returned, vz and ll after the
\* variance and sign policies of that cell), epochs on the outer axis and
\* durations on the inner one.
C9_GridOrder ==
    Returned("linear_search") =>
        LET a  == last_call.args
            sd == SelfData
        IN  /\ sd.t0s = a.t0s /\ sd.Ds = a.Ds
            /\ Len(sd.ll) = Len(a.t0s) /\ Len(sd.z) = Len(a.t0s)
            /\ Len(sd.vz) = Len(a.t0s)
            /\ \A i \in 1..Len(a.t0s) :
                   /\ Len(sd.ll[i]) = Len(a.Ds) /\ Len(sd.z[i]) = Len(a.Ds)
                   /\ Len(sd.vz[i]) = Len(a.Ds)
                   /\ \A j \in 1..Len(a.Ds) :
                          LET r == eval_transit(SelfSession, a.t0s[i], a.Ds[j])
                          IN  /\ sd.z[i][j] = r.depth
                              /\ sd.vz[i][j] = (IF r.var.k = "fin" THEN r.var
                                                ELSE FinE(1, 1, 25))
                              /\ sd.ll[i][j] =
                                    (IF a.positive /\ Less(r.depth, Zero)
                                     THEN NullLL(SelfSession) ELSE r.ll)

\* a search over three epochs and two durations stored depths that differ
\* along both axes
C9_Witness ==
    /\ Returned("linear_search")
    /\ Len(SelfData.t0s) = 3 /\ Len(SelfData.Ds) = 2
    /\ SelfData.z[1][1] # SelfData.z[1][2]
    /\ SelfData.z[1][1] # SelfData.z[2][1]
    /\ SelfData.z[2][1] # SelfData.z[3][1]
    /\ SelfData.z[2][1] # SelfData.z[2][2]

\* C10 (as stated): in every session that holds a SearchSurface, the ll0 the
\* surface carries equals the log-likelihood the Model Evaluator returns for
\* the all-zero regressor on that session's own time series.
C10_AsStated ==
    \A s \in DOMAIN sessions :
        sessions[s].search_data # NoSearchData =>
            heap[sessions[s].search_data].ll0 = NullLL(sessions[s])

\* C10 (amended): the ll0 a surface carries equals the log-likelihood the
\* Model Evaluator returns for the all-zero regressor on the time series of
\* the session whose linear_search evaluated the surface's grids; mask and
\* periodic_search carry that value over unchanged, so it is the session's
\* own ll0 only where the session ran the search itself.
C10_LL0OfEvaluation ==
    \A o \in DOMAIN heap : heap[o].ll0 = NullLL(sessions[evaluated_on[o]])

\* a masked session carries the ll0 of the session it was masked from, which
\* differs from its own
C10_Witness ==
    \E s \in DOMAIN sessions :
        /\ sessions[s].search_data # NoSearchData
        /\ evaluated_on[sessions[s].search_data] # s
        /\ heap[sessions[s].search_data].ll0 # NullLL(sessions[s])
        /\ heap[sessions[s].search_data].ll0.k = "fin"
        /\ NullLL(sessions[s]).k = "fin"

====
